---- MODULE Spec2Model ----
(***************************************************************************)
(* Audio-reactive rendering engine (src/src/lib/visualizations.ts) and the *)
(* preview component that drives it (PreviewCanvas, src/unnamed/part_001). *)
(*                                                                         *)
(* JavaScript runs every handler to completion on one thread.  A handler   *)
(* that arms a frame callback and then draws is modelled in two steps,     *)
(* the arm and the draw, with the closure that is between the two held in  *)
(* `executing`; while `executing` or `frameBatch` is non-empty no other    *)
(* handler can start.                                                      *)
(*                                                                         *)
(* Host calls (requestAnimationFrame, AudioContext, React effects) are     *)
(* modelled as succeeding; a frame-callback handle is a positive integer   *)
(* and is never handed out again while its callback is still pending.      *)
(***************************************************************************)
EXTENDS Integers, FiniteSets, Sequences, TLC

\* ---------------------------------------------------------------- bounds
NumConfigs == 2      \* distinct VisualizationConfig values a caller passes
MaxOps == 2          \* caller operations between two display refreshes
MaxLoops == 1        \* compositor loops the preview lets pile up
MaxImages == 1       \* length of the aiImages prop
MaxHandlers == 1     \* preview handlers between two display refreshes
MaxBlocks == 2       \* blocks in the text handed to parseSRT
SnapLen == 4         \* bufferLength of the snapshots tried besides the design's example
MaxWords == 3        \* words of the caption the lyrics compositor wraps
MaxExports == 2      \* exportVideo calls made on one VideoExporter

\* ------------------------------------------------------------ vocabulary
\* animationId: number | null = null; a handle is > 0, so `if (animationId)`
\* is the test animationId # Null.
Null == 0

KnownTypes == {"milkdrop", "fractals", "fire", "electricity", "particles", "waveform"}
\* ids a caller may pass to start: the six cases, 'spectrum', and one id the
\* switch does not know
AlgorithmIds == KnownTypes \cup {"spectrum", "plasma"}
Configs == 1..NumConfigs

\* SRTEntry; `|| null` of the lookups is NoLyric
NoLyric == [id |-> 0, startTime |-> 0, endTime |-> 0, text |-> ""]

VARIABLES
  animationId,     \* VisualizationEngine.animationId
  analyser,        \* the audio context behind VisualizationEngine.analyser:
                   \* "open", "closed", or "none" while no engine is constructed
  rafQueue,        \* callbacks armed with requestAnimationFrame, in the order armed
  frameBatch,      \* callbacks the scheduler took for the current frame, still to run
  executing,       \* the closure between its arm and its draw (at most one)
  frameDraws,      \* draws made since the last display refresh
  stepDraw,        \* the draw made by the step just taken (NoDraw: it drew nothing)
  started,         \* arguments of the latest start call
  calls,           \* what ran since the last display refresh, in order: the caller's
                   \* operations ("start", "stop", "handler") and the engine's draws
  isPlaying,       \* PreviewCanvas state isPlaying
  videoMode,       \* prop videoMode
  visualizationType, \* prop visualizationType
  aiImages,        \* prop aiImages (its length)
  srtEntries,      \* state srtEntries: the parsed Caption Timeline
  currentTime,     \* state currentTime
  currentLyric,    \* state currentLyric
  session,         \* audio context of the effect run whose cleanup is registered:
                   \* "open", or "none" when the last run returned no cleanup
  content,         \* argument of parseSRT: the blocks of the input text
  parsed,          \* return value of parseSRT, once it has run
  lookup,          \* the latest getCurrentLyric / getUpcomingLyric call and its result
  dataArray,       \* VisualizationEngine.dataArray: the spectrum snapshot of a frame
  rendered,        \* the routine that ran on the snapshot and the strokes it made
  exports,         \* the exportVideo calls made on the VideoExporter, in order: each
                   \* call's recorder, timers, promise and the reports it made
  mediaRecorder,   \* VideoExporter.mediaRecorder: the call whose recorder it holds
  now,             \* the host's clock, in ms
  srtFile,         \* App state srtFile, the srtFile prop of PreviewCanvas
  optionsSrtFile   \* VideoOptions state srtFile

engineVars == <<animationId, analyser, rafQueue, frameBatch, executing>>
ghostVars == <<frameDraws, stepDraw, started, calls>>
previewVars == <<isPlaying, videoMode, visualizationType, aiImages, srtEntries,
                 currentTime, currentLyric, session>>
srtVars == <<content, parsed, lookup>>
renderVars == <<dataArray, rendered>>
exportVars == <<exports, mediaRecorder, now>>
fileVars == <<srtFile, optionsSrtFile>>
libVars == <<srtVars, renderVars, exportVars, fileVars>>
vars == <<engineVars, ghostVars, previewVars, libVars>>

\* ------------------------------------------------- the host's scheduler
Range(q) == {q[i] : i \in 1..Len(q)}
Pending == Range(rafQueue) \cup Range(frameBatch)

\* requestAnimationFrame returns a handle no pending callback has
FreshHandle(q) ==
  LET used == {c.id : c \in Range(q) \cup Range(frameBatch)}
  IN  CHOOSE h \in 1..(Cardinality(used) + 1) :
        h \notin used /\ \A k \in 1..(h - 1) : k \in used

cancelAnimationFrame(q, h) == LET Keep(c) == c.id # h IN SelectSeq(q, Keep)

\* ------------------------------------------------------------ the engine
\* the closure `animate` of one start call
EngineCallback_dropsConfig(type, config) ==
  [id |-> Null, owner |-> "engine", type |-> type, config |-> 1,
   images |-> 0, lyric |-> NoLyric, src |-> "none", isPlaying |-> TRUE, via |-> "start"]

EngineCallback(type, config) ==
  [id |-> Null, owner |-> "engine", type |-> type, config |-> config,
   images |-> 0, lyric |-> NoLyric, src |-> "none", isPlaying |-> TRUE, via |-> "start"]

\* stop(): m is [animationId, queue]
stop_leavesHandle(m) ==
  IF m.animationId # Null
    THEN [animationId |-> m.animationId,
          queue |-> cancelAnimationFrame(m.queue, m.animationId)]
    ELSE m

stop_keepsCallback(m) ==
  IF m.animationId # Null
    THEN [animationId |-> Null, queue |-> m.queue]
    ELSE m

stop(m) ==
  IF m.animationId # Null
    THEN [animationId |-> Null, queue |-> cancelAnimationFrame(m.queue, m.animationId)]
    ELSE m

\* first statement of animate: this.animationId = requestAnimationFrame(animate)
animateArm_dropsHandle(m, cb) ==
  [animationId |-> m.animationId,
   queue |-> Append(m.queue, [cb EXCEPT !.id = FreshHandle(m.queue), !.via = "frame"])]

animateArm(m, cb) ==
  LET h == FreshHandle(m.queue)
  IN  [animationId |-> h, queue |-> Append(m.queue, [cb EXCEPT !.id = h, !.via = "frame"])]

\* start(type, config) up to the arm of its first animate() call
start_noStop(m, type, config) == animateArm(m, EngineCallback(type, config))

start(m, type, config) == animateArm(stop(m), EngineCallback(type, config))

\* the switch of animate
Dispatch_fireFallsThrough(type) ==
  CASE type = "milkdrop"    -> "renderMilkdrop"
    [] type = "fractals"    -> "renderFractals"
    [] type = "electricity" -> "renderElectricity"
    [] type = "particles"   -> "renderParticles"
    [] type = "waveform"    -> "renderWaveform"
    [] OTHER                -> "renderSpectrum"

Dispatch(type) ==
  CASE type = "milkdrop"    -> "renderMilkdrop"
    [] type = "fractals"    -> "renderFractals"
    [] type = "fire"        -> "renderFire"
    [] type = "electricity" -> "renderElectricity"
    [] type = "particles"   -> "renderParticles"
    [] type = "waveform"    -> "renderWaveform"
    [] OTHER                -> "renderSpectrum"

\* what one closure draws: getByteFrequencyData, then the routine
DrawOf(cb) ==
  [owner |-> cb.owner, type |-> cb.type,
   routine |-> CASE cb.owner = "engine" -> Dispatch(cb.type)
                 [] cb.owner = "ai"     -> "renderAIVisualsInternal"
                 [] OTHER               -> "renderLyricsVideoInternal",
   config |-> cb.config, via |-> cb.via,
   caption |-> IF cb.owner = "lyrics" THEN cb.lyric.text ELSE "",
   live |-> IF cb.owner = "engine" THEN analyser = "open" ELSE cb.src = "open"]

\* what a draw leaves on the surface for the display frame it falls in
MarkOf(d) == [owner |-> d.owner, routine |-> d.routine, via |-> d.via, caption |-> d.caption]

NoDraw ==
  [owner |-> "none", type |-> "none", routine |-> "none", config |-> 0,
   via |-> "none", caption |-> "", live |-> TRUE]

Idle == executing = {} /\ frameBatch = <<>>

\* caller operations since the last display refresh
Ops == Cardinality({i \in 1..Len(calls) : calls[i] # "draw"})

\* ------------------------------------------------------- engine actions
\* a caller calls engine.start(type, config)
Start(type, config) ==
  /\ Idle
  /\ Ops < MaxOps
  /\ LET m == start([animationId |-> animationId, queue |-> rafQueue], type, config)
     IN  /\ animationId' = m.animationId
         /\ rafQueue' = m.queue
  /\ executing' = {EngineCallback(type, config)}
  /\ started' = [type |-> type, config |-> config]
  /\ calls' = Append(calls, "start")
  /\ stepDraw' = NoDraw
  /\ UNCHANGED previewVars
  /\ UNCHANGED libVars
  /\ UNCHANGED <<analyser, frameBatch, frameDraws>>

\* a caller calls engine.stop()
Stop ==
  /\ Idle
  /\ Ops < MaxOps
  /\ LET m == stop([animationId |-> animationId, queue |-> rafQueue])
     IN  /\ animationId' = m.animationId
         /\ rafQueue' = m.queue
  /\ calls' = Append(calls, "stop")
  /\ stepDraw' = NoDraw
  /\ UNCHANGED previewVars
  /\ UNCHANGED libVars
  /\ UNCHANGED <<analyser, frameBatch, executing, frameDraws, started>>

\* the display refreshes: the scheduler takes the armed callbacks, in order
Refresh ==
  /\ Idle
  /\ frameBatch' = rafQueue
  /\ rafQueue' = <<>>
  /\ frameDraws' = {}
  /\ calls' = <<>>
  /\ stepDraw' = NoDraw
  /\ UNCHANGED previewVars
  /\ UNCHANGED libVars
  /\ UNCHANGED <<animationId, analyser, executing, started>>

\* the scheduler runs an engine callback: animate() up to its arm
EngineFrame ==
  /\ executing = {}
  /\ frameBatch # <<>>
  /\ LET cb == Head(frameBatch)
         m == animateArm([animationId |-> animationId, queue |-> rafQueue], cb)
     IN  /\ cb.owner = "engine"
         /\ frameBatch' = Tail(frameBatch)
         /\ animationId' = m.animationId
         /\ rafQueue' = m.queue
         /\ executing' = {cb}
  /\ stepDraw' = NoDraw
  /\ UNCHANGED previewVars
  /\ UNCHANGED libVars
  /\ UNCHANGED <<analyser, frameDraws, started, calls>>

\* the rest of animate(): read the snapshot and run the routine
Draw ==
  /\ \E cb \in executing :
       /\ stepDraw' = DrawOf(cb)
       /\ frameDraws' = frameDraws \cup {MarkOf(DrawOf(cb))}
  /\ executing' = {}
  /\ calls' = Append(calls, "draw")
  /\ UNCHANGED previewVars
  /\ UNCHANGED libVars
  /\ UNCHANGED <<animationId, analyser, rafQueue, frameBatch, started>>

\* the owner of the audio session closes its context
CloseSource ==
  /\ Idle
  /\ analyser = "open"
  /\ analyser' = "closed"
  /\ stepDraw' = NoDraw
  /\ UNCHANGED previewVars
  /\ UNCHANGED libVars
  /\ UNCHANGED <<animationId, rafQueue, frameBatch, executing, frameDraws, started, calls>>

\* no library call has been made
NotParsed == [done |-> FALSE, entries |-> <<>>]
NoLookup == [fn |-> "none", t |-> 0, result |-> NoLyric]
NotRendered == [routine |-> "none", arg |-> 0, words |-> <<>>, peaks |-> {}, strokes |-> {}]
\* a File by the timeline parseSRT reads from its text; NoFile is null
NoFile == [present |-> FALSE, entries |-> <<>>]
File(entries) == [present |-> TRUE, entries |-> entries]
InitLib ==
  /\ content = <<>>
  /\ parsed = NotParsed
  /\ lookup = NoLookup
  /\ dataArray = <<>>
  /\ rendered = NotRendered
  /\ exports = <<>>
  /\ mediaRecorder = Null
  /\ now = 0
  /\ srtFile = NoFile
  /\ optionsSrtFile = NoFile

\* what both specifications start from: nothing armed, nothing drawn
InitCommon ==
  /\ animationId = Null
  /\ rafQueue = <<>>
  /\ frameBatch = <<>>
  /\ executing = {}
  /\ frameDraws = {}
  /\ stepDraw = NoDraw
  /\ started = [type |-> "none", config |-> 0]
  /\ calls = <<>>
  /\ isPlaying = FALSE
  /\ videoMode = "ai-visual"
  /\ visualizationType = "milkdrop"
  /\ aiImages = 0
  /\ srtEntries = <<>>
  /\ currentTime = 0
  /\ currentLyric = NoLyric
  /\ session = "none"

\* new VisualizationEngine(canvas, analyser) on an open audio session
Init ==
  /\ InitCommon
  /\ analyser = "open"
  /\ InitLib

Next ==
  \/ \E type \in AlgorithmIds, config \in Configs : Start(type, config)
  \/ Stop
  \/ Refresh
  \/ EngineFrame
  \/ Draw
  \/ CloseSource

Spec == Init /\ [][Next]_vars

\* ---------------------------------------------------------- the preview
\* PreviewCanvas with an audio file loaded (canvas and audio element exist).

VideoModes == {"ai-visual", "visualization", "lyrics"}
\* ids the visualization pickers offer (two of the six)
PreviewTypes == {"milkdrop", "fire"}
\* the config literal the preview passes to every start
PreviewConfig == 1

\* timelines parseSRT can hand to setSrtEntries: no block accepted, or one entry
Timeline1 == <<[id |-> 1, startTime |-> 0, endTime |-> 0, text |-> "a"]>>
Timelines == {<<>>, Timeline1}
\* playback positions (seconds): to one second past the last caption
Times == 0..(Timeline1[Len(Timeline1)].endTime + 1)

\* entries.find(e => currentTime >= e.startTime && currentTime <= e.endTime) || null
getCurrentLyric_exclusiveEnd(entries, t) ==
  LET hits == {i \in 1..Len(entries) :
                 t >= entries[i].startTime /\ t < entries[i].endTime}
  IN  IF hits = {} THEN NoLyric
      ELSE entries[CHOOSE i \in hits : \A j \in hits : i <= j]

getCurrentLyric(entries, t) ==
  LET hits == {i \in 1..Len(entries) :
                 t >= entries[i].startTime /\ t <= entries[i].endTime}
  IN  IF hits = {} THEN NoLyric
      ELSE entries[CHOOSE i \in hits : \A j \in hits : i <= j]

\* the closures `animate` of renderAIVisualsInternal and renderLyricsVideoInternal;
\* each captures the analyser, its argument and the isPlaying of its render
AICallback(images, playing) ==
  [id |-> Null, owner |-> "ai", type |-> "none", config |-> 0,
   images |-> images, lyric |-> NoLyric, src |-> "open", isPlaying |-> playing,
   via |-> "start"]

LyricsCallback(lyric, playing) ==
  [id |-> Null, owner |-> "lyrics", type |-> "none", config |-> 0,
   images |-> 0, lyric |-> lyric, src |-> "open", isPlaying |-> playing,
   via |-> "start"]

\* requestAnimationFrame(animate) of a compositor: the handle is dropped
compositorArm(m, cb) ==
  [animationId |-> m.animationId,
   queue |-> Append(m.queue, [cb EXCEPT !.id = FreshHandle(m.queue), !.via = "frame"])]

\* visualizationEngineRef.current?.stop()
refStop(exists, m) == IF exists THEN stop(m) ELSE m

\* audioContext.close(): the analysers the armed closures captured go dead
closeContext(q) ==
  [i \in 1..Len(q) |-> IF q[i].src = "open" THEN [q[i] EXCEPT !.src = "closed"] ELSE q[i]]

\* the closure the effect body starts, for the values of its render
EffectCallback_spectrumFallback(mode, vtype, images, lyric, playing) ==
  CASE mode = "visualization" -> EngineCallback(vtype, PreviewConfig)
    [] mode = "ai-visual" ->
         IF images = 0 THEN EngineCallback("spectrum", PreviewConfig)
         ELSE AICallback(images, playing)
    [] OTHER -> LyricsCallback(lyric, playing)

EffectCallback(mode, vtype, images, lyric, playing) ==
  CASE mode = "visualization" -> EngineCallback(vtype, PreviewConfig)
    [] mode = "ai-visual" ->
         IF images = 0 THEN EngineCallback("milkdrop", PreviewConfig)
         ELSE AICallback(images, playing)
    [] OTHER -> LyricsCallback(lyric, playing)

CompositorLoops(q) == Cardinality({i \in 1..Len(q) : q[i].owner # "engine"})

\* The visualization effect of one commit: the cleanup the previous run
\* returned, then the body with the values of the new render.  An engine
\* closure is left in `executing` for its draw; a compositor's first animate()
\* call arms and draws within the effect.
VisualizationEffect(playing, mode, vtype, images, lyric) ==
  LET hadCleanup == session = "open"
      m0 == [animationId |-> animationId, queue |-> rafQueue]
      \* cleanup: engine?.stop(); audioContext.close()
      s1 == IF hadCleanup THEN refStop(analyser # "none", m0) ELSE m0
      m1 == [animationId |-> s1.animationId,
             queue |-> IF hadCleanup THEN closeContext(s1.queue) ELSE s1.queue]
      analyser1 == IF hadCleanup /\ analyser = "open" THEN "closed" ELSE analyser
  IN  IF ~playing
        THEN LET m2 == refStop(analyser # "none", m1)
             IN  /\ animationId' = m2.animationId
                 /\ rafQueue' = m2.queue
                 /\ analyser' = analyser1
                 /\ session' = "none"
                 /\ executing' = {}
                 /\ stepDraw' = NoDraw
                 /\ UNCHANGED <<started, frameDraws>>
        ELSE LET cb == EffectCallback(mode, vtype, images, lyric, playing)
                 m2 == IF cb.owner = "engine" THEN start(m1, cb.type, cb.config)
                       ELSE compositorArm(m1, cb)
             IN  /\ cb.owner # "engine" => CompositorLoops(m1.queue) < MaxLoops
                 /\ animationId' = m2.animationId
                 /\ rafQueue' = m2.queue
                 \* the engine is constructed once, on the analyser of that run
                 /\ analyser' = IF analyser1 = "none" THEN "open" ELSE analyser1
                 /\ session' = "open"
                 /\ IF cb.owner = "engine"
                      THEN /\ started' = [type |-> cb.type, config |-> cb.config]
                           /\ executing' = {cb}
                           /\ stepDraw' = NoDraw
                           /\ UNCHANGED frameDraws
                      ELSE /\ executing' = {}
                           /\ stepDraw' = DrawOf(cb)
                           /\ frameDraws' = frameDraws \cup {MarkOf(DrawOf(cb))}
                           /\ UNCHANGED started

\* a commit in which no dependency of the visualization effect changed
NoEffect ==
  /\ stepDraw' = NoDraw
  /\ UNCHANGED <<animationId, analyser, rafQueue, executing, session, started,
                 frameDraws>>

\* what every handler of the preview shares
Handlers == Cardinality({i \in 1..Len(calls) : calls[i] = "handler"})

Handler ==
  /\ Idle
  /\ Handlers < MaxHandlers
  /\ calls' = Append(calls, "handler")
  /\ UNCHANGED frameBatch
  /\ UNCHANGED libVars

\* the play/pause button
togglePlayPause ==
  /\ Handler
  /\ isPlaying' = ~isPlaying
  /\ VisualizationEffect(~isPlaying, videoMode, visualizationType, aiImages, currentLyric)
  /\ UNCHANGED <<videoMode, visualizationType, aiImages, srtEntries, currentTime,
                 currentLyric>>

\* the audio element's 'ended' event while playing
handleEnded ==
  /\ Handler
  /\ isPlaying
  /\ isPlaying' = FALSE
  /\ VisualizationEffect(FALSE, videoMode, visualizationType, aiImages, currentLyric)
  /\ UNCHANGED <<videoMode, visualizationType, aiImages, srtEntries, currentTime,
                 currentLyric>>

\* the parent passes another videoMode
ModeChange(mode) ==
  /\ Handler
  /\ mode # videoMode
  /\ videoMode' = mode
  /\ VisualizationEffect(isPlaying, mode, visualizationType, aiImages, currentLyric)
  /\ UNCHANGED <<isPlaying, visualizationType, aiImages, srtEntries, currentTime,
                 currentLyric>>

\* the parent passes another visualizationType
VisualizationTypeChange(vtype) ==
  /\ Handler
  /\ vtype # visualizationType
  /\ visualizationType' = vtype
  /\ VisualizationEffect(isPlaying, videoMode, vtype, aiImages, currentLyric)
  /\ UNCHANGED <<isPlaying, videoMode, aiImages, srtEntries, currentTime, currentLyric>>

\* the parent passes another aiImages array
AiImagesChange(images) ==
  /\ Handler
  /\ images # aiImages
  /\ aiImages' = images
  /\ VisualizationEffect(isPlaying, videoMode, visualizationType, images, currentLyric)
  /\ UNCHANGED <<isPlaying, videoMode, visualizationType, srtEntries, currentTime,
                 currentLyric>>

\* the current-lyric effect, then the visualization effect when the lyric changed
LyricEffect(entries, t) ==
  LET lyric == IF Len(entries) > 0 THEN getCurrentLyric(entries, t) ELSE currentLyric
  IN  /\ currentLyric' = lyric
      /\ IF lyric # currentLyric
           THEN VisualizationEffect(isPlaying, videoMode, visualizationType, aiImages, lyric)
           ELSE NoEffect

\* 'timeupdate' of the audio element, or a seek
handleTimeUpdate(t) ==
  /\ Handler
  /\ t # currentTime
  /\ currentTime' = t
  /\ LyricEffect(srtEntries, t)
  /\ UNCHANGED <<isPlaying, videoMode, visualizationType, aiImages, srtEntries>>

\* a handler of VideoOptions
OptionsHandler ==
  /\ Idle
  /\ Handlers < MaxHandlers
  /\ calls' = Append(calls, "handler")
  /\ UNCHANGED frameBatch
  /\ UNCHANGED <<srtVars, renderVars, exportVars>>

\* handleSrtUpload of VideoOptions with a .srt file: setSrtFile(file) and
\* onSrtFileChange(file), which is App's setSrtFile.  The SRT effect of
\* PreviewCanvas starts a FileReader on the new srtFile.
handleSrtUpload(entries) ==
  /\ OptionsHandler
  /\ File(entries) # srtFile
  /\ optionsSrtFile' = File(entries)
  /\ srtFile' = File(entries)
  /\ NoEffect
  /\ UNCHANGED previewVars

\* the Remove button of VideoOptions: onClick={() => setSrtFile(null)}, the
\* setter of VideoOptions' own state; onSrtFileChange is not called, so no
\* prop of PreviewCanvas changes and none of its effects runs
RemoveSrt ==
  /\ OptionsHandler
  /\ optionsSrtFile.present
  /\ optionsSrtFile' = NoFile
  /\ UNCHANGED srtFile
  /\ NoEffect
  /\ UNCHANGED previewVars

\* the SRT effect's reader.onload: the file reader delivers the parsed timeline
SrtLoaded(entries) ==
  /\ Handler
  /\ srtFile = File(entries)
  /\ entries # srtEntries
  /\ srtEntries' = entries
  /\ LyricEffect(entries, currentTime)
  /\ UNCHANGED <<isPlaying, videoMode, visualizationType, aiImages, currentTime>>

\* the scheduler runs a compositor callback: animate(), its arm and its draw
CompositorFrame ==
  /\ executing = {}
  /\ frameBatch # <<>>
  /\ LET cb == Head(frameBatch)
     IN  /\ cb.owner # "engine"
         /\ frameBatch' = Tail(frameBatch)
         /\ IF cb.isPlaying
              THEN /\ rafQueue' = compositorArm([animationId |-> animationId,
                                                 queue |-> rafQueue], cb).queue
                   /\ stepDraw' = DrawOf(cb)
                   /\ frameDraws' = frameDraws \cup {MarkOf(DrawOf(cb))}
              ELSE /\ stepDraw' = NoDraw
                   /\ UNCHANGED <<rafQueue, frameDraws>>
  /\ UNCHANGED previewVars
  /\ UNCHANGED libVars
  /\ UNCHANGED <<animationId, analyser, executing, started, calls>>

\* the component is mounted, an audio file is loaded, nothing plays, no engine yet
InitPreview ==
  /\ InitCommon
  /\ analyser = "none"
  /\ InitLib

NextPreview ==
  \/ togglePlayPause
  \/ handleEnded
  \/ \E mode \in VideoModes : ModeChange(mode)
  \/ \E vtype \in PreviewTypes : VisualizationTypeChange(vtype)
  \/ \E images \in 0..MaxImages : AiImagesChange(images)
  \/ \E t \in Times : handleTimeUpdate(t)
  \/ \E entries \in Timelines : handleSrtUpload(entries)
  \/ RemoveSrt
  \/ \E entries \in Timelines : SrtLoaded(entries)
  \/ Refresh
  \/ EngineFrame
  \/ CompositorFrame
  \/ Draw

SpecPreview == InitPreview /\ [][NextPreview]_vars

\* ------------------------------------------------------ the SRT library
\* srt-parser.ts.  The input text is held as the blocks that
\* content.trim().split(/\n\s*\n/) yields; a block is the sequence of its
\* lines.  Line 1 is a sequence of characters, line 2 a time line
\* [lead, from, sep, to] whose stamps are four digit fields, line 3 the
\* caption as pieces of plain text and markup.  Times are in milliseconds
\* (the code's seconds times 1000), which keeps parseTime in the integers.

NaN == -1
isNaN(n) == n = NaN

Digits == {"0", "1", "2", "3", "4", "5", "6", "7", "8", "9"}
DigitValue(c) ==
  CASE c = "0" -> 0 [] c = "1" -> 1 [] c = "2" -> 2 [] c = "3" -> 3 [] c = "4" -> 4
    [] c = "5" -> 5 [] c = "6" -> 6 [] c = "7" -> 7 [] c = "8" -> 8 [] c = "9" -> 9

\* value of a sequence of digits
RECURSIVE DecimalValue(_)
DecimalValue(ds) ==
  IF ds = <<>> THEN 0
  ELSE 10 * DecimalValue(SubSeq(ds, 1, Len(ds) - 1)) + DigitValue(ds[Len(ds)])

\* the longest prefix of digits of a line
RECURSIVE DigitPrefix(_)
DigitPrefix(chars) ==
  IF chars = <<>> \/ Head(chars) \notin Digits THEN <<>>
  ELSE <<Head(chars)>> \o DigitPrefix(Tail(chars))

\* parseInt(line): the digits the line begins with; NaN when it begins with none
parseInt_wholeLine(chars) ==
  IF chars = <<>> \/ DigitPrefix(chars) # chars THEN NaN ELSE DecimalValue(chars)

parseInt(chars) ==
  IF DigitPrefix(chars) = <<>> THEN NaN ELSE DecimalValue(DigitPrefix(chars))

\* parseTime(hours, minutes, seconds, milliseconds), in milliseconds
parseTime(hours, minutes, seconds, milliseconds) ==
  parseInt(hours) * 3600000 + parseInt(minutes) * 60000
    + parseInt(seconds) * 1000 + parseInt(milliseconds)

\* lines[1].match(/(\d{2}):(\d{2}):(\d{2}),(\d{3})\s*-->\s*.../): the pattern is
\* searched for anywhere in the line and needs the comma before the milliseconds
NoMatch == <<>>
timeMatch(line) == IF line.sep = "," THEN line.from \o line.to ELSE NoMatch

\* lines.slice(2).join('\n').replace(/<[^>]*>/g, '')
RECURSIVE stripTags(_)
stripTags(pieces) ==
  IF pieces = <<>> THEN ""
  ELSE (IF Head(pieces).tag THEN "" ELSE Head(pieces).s) \o stripTags(Tail(pieces))

\* one pass of the for loop: the entry a block pushes, if any
BlockEntries(lines) ==
  IF Len(lines) < 3 THEN <<>>
  ELSE IF isNaN(parseInt(lines[1])) THEN <<>>
  ELSE LET m == timeMatch(lines[2])
       IN  IF m = NoMatch THEN <<>>
           ELSE <<[id |-> parseInt(lines[1]),
                   startTime |-> parseTime(m[1], m[2], m[3], m[4]),
                   endTime |-> parseTime(m[5], m[6], m[7], m[8]),
                   text |-> stripTags(lines[3])]>>

\* the for loop over the blocks
RECURSIVE parseBlocks(_)
parseBlocks(blocks) ==
  IF blocks = <<>> THEN <<>>
  ELSE parseBlocks(SubSeq(blocks, 1, Len(blocks) - 1)) \o BlockEntries(blocks[Len(blocks)])

\* entries.sort((a, b) => a.startTime - b.startTime): a stable sort
RECURSIVE InsertByStart(_, _)
InsertByStart(e, sorted) ==
  IF sorted = <<>> THEN <<e>>
  ELSE IF Head(sorted).startTime >= e.startTime THEN <<e>> \o sorted
  ELSE <<Head(sorted)>> \o InsertByStart(e, Tail(sorted))

RECURSIVE sortByStart(_)
sortByStart(entries) ==
  IF entries = <<>> THEN <<>>
  ELSE InsertByStart(Head(entries), sortByStart(Tail(entries)))

parseSRT_unsorted(blocks) == parseBlocks(blocks)

parseSRT(blocks) == sortByStart(parseBlocks(blocks))

\* entries.find(entry => entry.startTime > currentTime) || null
getUpcomingLyric_inclusive(entries, t) ==
  LET hits == {i \in 1..Len(entries) : entries[i].startTime >= t}
  IN  IF hits = {} THEN NoLyric
      ELSE entries[CHOOSE i \in hits : \A j \in hits : i <= j]

getUpcomingLyric(entries, t) ==
  LET hits == {i \in 1..Len(entries) : entries[i].startTime > t}
  IN  IF hits = {} THEN NoLyric
      ELSE entries[CHOOSE i \in hits : \A j \in hits : i <= j]

\* the input texts: stamps 00:00:00,000  00:00:02,000  00:01:00,500
Stamp(mm, ss, mmm) == <<<<"0", "0">>, mm, ss, mmm>>
Stamps ==
  {Stamp(<<"0", "0">>, <<"0", "0">>, <<"0", "0", "0">>),
   Stamp(<<"0", "0">>, <<"0", "2">>, <<"0", "0", "0">>),
   Stamp(<<"0", "1">>, <<"0", "0">>, <<"5", "0", "0">>)}
StampMs(st) == parseTime(st[1], st[2], st[3], st[4])
FirstStamp == CHOOSE st \in Stamps : \A o \in Stamps : StampMs(st) <= StampMs(o)
LastStamp == CHOOSE st \in Stamps : \A o \in Stamps : StampMs(st) >= StampMs(o)

TimeLine(lead, from, sep, to) == [lead |-> lead, from |-> from, sep |-> sep, to |-> to]
Caption == <<[tag |-> FALSE, s |-> "a"]>>
TaggedCaption == <<[tag |-> TRUE, s |-> "<i>"], [tag |-> FALSE, s |-> "b"],
                   [tag |-> TRUE, s |-> "</i>"]>>

\* blocks in the plain form: a number, a time range, a caption
PlainBlocks ==
  {<<<<"1">>, TimeLine("", from, ",", to), Caption>> : from \in Stamps, to \in Stamps}
\* blocks in other forms: no caption line, a first line that is no number, a
\* time line with '.' for ',', a number followed by text, a time range
\* inside other text
OddBlocks ==
  {<<<<"1">>, TimeLine("", FirstStamp, ",", LastStamp)>>,
   <<<<"x">>, TimeLine("", FirstStamp, ",", LastStamp), Caption>>,
   <<<<"1">>, TimeLine("", FirstStamp, ".", LastStamp), Caption>>,
   <<<<"7", "x">>, TimeLine("", FirstStamp, ",", LastStamp), TaggedCaption>>,
   <<<<"1">>, TimeLine("x", FirstStamp, ",", LastStamp), Caption>>}
Blocks == PlainBlocks \cup OddBlocks
Contents == UNION {[1..n -> Blocks] : n \in 0..MaxBlocks}

\* playback times asked about: every stamp, and half a second after it
LookupTimes == UNION {{StampMs(st), StampMs(st) + 500} : st \in Stamps}

\* a caller calls parseSRT(content)
ParseSRT ==
  /\ ~parsed.done
  /\ parsed' = [done |-> TRUE, entries |-> parseSRT(content)]
  /\ UNCHANGED <<content, lookup>>
  /\ UNCHANGED <<engineVars, ghostVars, previewVars, renderVars, exportVars, fileVars>>

\* a caller calls getCurrentLyric(entries, t) on the parsed timeline
GetCurrentLyric(t) ==
  /\ parsed.done
  /\ lookup = NoLookup
  /\ lookup' = [fn |-> "getCurrentLyric", t |-> t,
                result |-> getCurrentLyric(parsed.entries, t)]
  /\ UNCHANGED <<content, parsed>>
  /\ UNCHANGED <<engineVars, ghostVars, previewVars, renderVars, exportVars, fileVars>>

\* a caller calls getUpcomingLyric(entries, t) on the parsed timeline
GetUpcomingLyric(t) ==
  /\ parsed.done
  /\ lookup = NoLookup
  /\ lookup' = [fn |-> "getUpcomingLyric", t |-> t,
                result |-> getUpcomingLyric(parsed.entries, t)]
  /\ UNCHANGED <<content, parsed>>
  /\ UNCHANGED <<engineVars, ghostVars, previewVars, renderVars, exportVars, fileVars>>

InitSrt ==
  /\ InitCommon
  /\ analyser = "none"
  /\ content \in Contents
  /\ parsed = NotParsed
  /\ lookup = NoLookup
  /\ dataArray = <<>>
  /\ rendered = NotRendered
  /\ exports = <<>>
  /\ mediaRecorder = Null
  /\ now = 0
  /\ srtFile = NoFile
  /\ optionsSrtFile = NoFile

NextSrt ==
  \/ ParseSRT
  \/ \E t \in LookupTimes : GetCurrentLyric(t)
  \/ \E t \in LookupTimes : GetUpcomingLyric(t)

SpecSrt == InitSrt /\ [][NextSrt]_vars

\* --------------------------------------------------- the render routines
\* renderFractals and renderElectricity of visualizations.ts, as the strokes
\* they make for one snapshot.  A stroke is named by the call that made it:
\* the loop index it belongs to and the path of recursive calls that led to
\* it.  Coordinates, angles, lengths, colours and the Math.random jitter are
\* left out: no branch of these routines reads them.  Amplitudes are kept
\* as integers: a byte b for the code's b / 255, and a segment count n for
\* the code's n / 255.

BaseAngles == 8
FractalDepth == 4
PeakThreshold == 100
FullScale == 255
LightningScale == 5

Amplitudes == {0, PeakThreshold, PeakThreshold + 1, FullScale}
ExampleSnapshot == <<0, 50, 120, 40, 200, 190, 210, 30>>
\* snapshots of 1 to SnapLen bins, one bin of every byte value between two
\* silent bins, and the example of the design
Snapshots ==
  UNION {[1..n -> Amplitudes] : n \in 1..SnapLen}
    \cup {<<0, v, 0>> : v \in 0..FullScale}
    \cup {ExampleSnapshot}

\* this.bufferLength, and this.dataArray[i] with i counted from 0
bufferLength(data) == Len(data)
At(data, i) == data[i + 1]

\* this.dataArray.reduce((sum, val) => sum + val, 0)
RECURSIVE SumOf(_)
SumOf(data) == IF data = <<>> THEN 0 ELSE Head(data) + SumOf(Tail(data))

\* drawFractalBranch(x, y, angle, length, depth, amplitude): the strokes of the
\* call and of the calls it makes
RECURSIVE drawFractalBranch(_, _, _, _)
drawFractalBranch(base, path, depth, amplitude) ==
  IF depth = 0 THEN {}
  ELSE {[base |-> base, path |-> path, depth |-> depth, amplitude |-> amplitude]}
         \cup drawFractalBranch(base, Append(path, "-"), depth - 1, amplitude)
         \cup drawFractalBranch(base, Append(path, "+"), depth - 1, amplitude)

\* renderFractals: for (let i = 0; i < 8; i++) drawFractalBranch(..., 4, avgAmplitude)
renderFractals_depthFromAmplitude(data) ==
  UNION {drawFractalBranch(i, <<>>, IF SumOf(data) = 0 THEN FractalDepth - 1 ELSE FractalDepth,
                           SumOf(data)) : i \in 0..(BaseAngles - 1)}

renderFractals(data) ==
  UNION {drawFractalBranch(i, <<>>, FractalDepth, SumOf(data)) : i \in 0..(BaseAngles - 1)}

\* the peaks loop of renderElectricity
Peaks_tieOnRight(data) ==
  {[index |-> i, amplitude |-> At(data, i)] : i \in
     {j \in 1..(bufferLength(data) - 2) :
        /\ At(data, j) > At(data, j - 1)
        /\ At(data, j) >= At(data, j + 1)
        /\ At(data, j) > PeakThreshold}}

Peaks_shortLoop(data) ==
  {[index |-> i, amplitude |-> At(data, i)] : i \in
     {j \in 1..(bufferLength(data) - 3) :
        /\ At(data, j) > At(data, j - 1)
        /\ At(data, j) > At(data, j + 1)
        /\ At(data, j) > PeakThreshold}}

Peaks(data) ==
  {[index |-> i, amplitude |-> At(data, i)] : i \in
     {j \in 1..(bufferLength(data) - 2) :
        /\ At(data, j) > At(data, j - 1)
        /\ At(data, j) > At(data, j + 1)
        /\ At(data, j) > PeakThreshold}}

\* peak.amplitude * 5, the segments argument of the first drawLightning call
StartSegments_fixed(amplitude) == LightningScale * FullScale

StartSegments_sixfold(amplitude) == (LightningScale + 1) * amplitude

StartSegments(amplitude) == LightningScale * amplitude

\* segments - 1, the segments argument of the recursive calls
NextSegments_halved(segments) == segments \div 2

NextSegments(segments) == segments - FullScale

\* drawLightning(x1, y1, x2, y2, segments): the strokes of the call and of the
\* calls it makes
RECURSIVE drawLightning(_, _, _)
drawLightning(peak, path, segments) ==
  IF segments <= 0 THEN {}
  ELSE {[peak |-> peak, path |-> path, segments |-> segments]}
         \cup (IF segments > FullScale
                 THEN drawLightning(peak, Append(path, 1), NextSegments(segments))
                        \cup drawLightning(peak, Append(path, 2), NextSegments(segments))
                 ELSE {})

\* peaks.forEach(peak => this.drawLightning(..., peak.amplitude * 5))
renderElectricity(data) ==
  UNION {drawLightning(p.index, <<>>, StartSegments(p.amplitude)) : p \in Peaks(data)}

\* renderParticles: Math.floor(amplitude * 10) for a bin that passes
\* `if (amplitude < 0.1) continue`, with amplitude = byte / 255
ParticleCount_threshold02(byte) ==
  IF 10 * byte < 2 * FullScale THEN 0 ELSE (10 * byte) \div FullScale

ParticleCount(byte) ==
  IF 10 * byte < FullScale THEN 0 ELSE (10 * byte) \div FullScale

\* renderParticles: the arcs of the two nested loops
renderParticles(data) ==
  UNION {{[bin |-> i, read |-> i, p |-> p, amplitude |-> At(data, i)] :
            p \in 0..(ParticleCount(At(data, i)) - 1)} :
         i \in 0..(bufferLength(data) - 1)}

\* the low-alpha fill every routine begins with
Fade == [bin |-> -1, read |-> -1, shape |-> "fade"]

\* renderSpectrum: the fade, then one fillRect per bin, reading dataArray[i]
renderSpectrum_offByOne(data) ==
  {Fade} \cup {[bin |-> i, read |-> i, shape |-> "fillRect"] : i \in 0..bufferLength(data)}

renderSpectrum(data) ==
  {Fade} \cup {[bin |-> i, read |-> i, shape |-> "fillRect"] : i \in 0..(bufferLength(data) - 1)}

\* renderMilkdrop: the fade, then one arc per bin, reading dataArray[i]
renderMilkdrop(data) ==
  {Fade} \cup {[bin |-> i, read |-> i, shape |-> "arc"] : i \in 0..(bufferLength(data) - 1)}

\* a frame of the particles routine on the snapshot
RenderParticles ==
  /\ rendered = NotRendered
  /\ rendered' = [NotRendered EXCEPT !.routine = "renderParticles",
                                     !.strokes = renderParticles(dataArray)]
  /\ UNCHANGED dataArray
  /\ UNCHANGED <<engineVars, ghostVars, previewVars, srtVars, exportVars, fileVars>>

\* a frame of the spectrum routine on the snapshot
RenderSpectrum ==
  /\ rendered = NotRendered
  /\ rendered' = [NotRendered EXCEPT !.routine = "renderSpectrum",
                                     !.strokes = renderSpectrum(dataArray)]
  /\ UNCHANGED dataArray
  /\ UNCHANGED <<engineVars, ghostVars, previewVars, srtVars, exportVars, fileVars>>

\* a frame of the milkdrop routine on the snapshot
RenderMilkdrop ==
  /\ rendered = NotRendered
  /\ rendered' = [NotRendered EXCEPT !.routine = "renderMilkdrop",
                                     !.strokes = renderMilkdrop(dataArray)]
  /\ UNCHANGED dataArray
  /\ UNCHANGED <<engineVars, ghostVars, previewVars, srtVars, exportVars, fileVars>>

\* animate of renderAIVisualsInternal (part_001):
\*   avgAmplitude = dataArray.reduce(...) / dataArray.length / 255
\*   imageIndex = Math.floor(avgAmplitude * images.length) % images.length
ImageCounts == 1..(MaxImages + 2)

imageIndex_noModulo(data, count) ==
  (SumOf(data) * count) \div (Len(data) * FullScale)

imageIndex(data, count) ==
  ((SumOf(data) * count) \div (Len(data) * FullScale)) % count

\* a frame of the AI-image compositor on the snapshot, with `count` images
AIImageFrame(count) ==
  /\ rendered = NotRendered
  /\ rendered' = [NotRendered EXCEPT !.routine = "renderAIVisualsInternal",
                                     !.arg = count,
                                     !.strokes = {[imageIndex |-> imageIndex(dataArray, count)]}]
  /\ UNCHANGED dataArray
  /\ UNCHANGED <<engineVars, ghostVars, previewVars, srtVars, exportVars, fileVars>>

\* segment counts for a call of drawLightning on its own, in units of 1/255:
\* -1, 0, 1/255, 1, 1 + 1/255 and 5
LightningCounts ==
  {-FullScale, 0, 1, FullScale, FullScale + 1, LightningScale * FullScale}

\* one call of drawLightning with the given segment count
DrawLightning(segments) ==
  /\ rendered = NotRendered
  /\ rendered' = [NotRendered EXCEPT !.routine = "drawLightning",
                                     !.arg = segments,
                                     !.strokes = drawLightning(0, <<>>, segments)]
  /\ UNCHANGED dataArray
  /\ UNCHANGED <<engineVars, ghostVars, previewVars, srtVars, exportVars, fileVars>>

\* a frame of the fractals routine on the snapshot
RenderFractals ==
  /\ rendered = NotRendered
  /\ rendered' = [NotRendered EXCEPT !.routine = "renderFractals",
                                     !.strokes = renderFractals(dataArray)]
  /\ UNCHANGED dataArray
  /\ UNCHANGED <<engineVars, ghostVars, previewVars, srtVars, exportVars, fileVars>>

\* a frame of the electricity routine on the snapshot
RenderElectricity ==
  /\ rendered = NotRendered
  /\ rendered' = [NotRendered EXCEPT !.routine = "renderElectricity",
                                     !.peaks = Peaks(dataArray),
                                     !.strokes = renderElectricity(dataArray)]
  /\ UNCHANGED dataArray
  /\ UNCHANGED <<engineVars, ghostVars, previewVars, srtVars, exportVars, fileVars>>

\* an engine whose analyser has filled dataArray for the frame to draw
InitRender ==
  /\ InitCommon
  /\ analyser = "open"
  /\ content = <<>>
  /\ parsed = NotParsed
  /\ lookup = NoLookup
  /\ dataArray \in Snapshots
  /\ rendered = NotRendered
  /\ exports = <<>>
  /\ mediaRecorder = Null
  /\ now = 0
  /\ srtFile = NoFile
  /\ optionsSrtFile = NoFile

NextRender ==
  \/ RenderFractals
  \/ RenderElectricity
  \/ RenderParticles
  \/ RenderSpectrum
  \/ RenderMilkdrop
  \/ \E count \in ImageCounts : AIImageFrame(count)
  \/ \E segments \in LightningCounts : DrawLightning(segments)

SpecRender == InitRender /\ [][NextRender]_vars

\* ------------------------------------------------- the caption word wrap
\* animate of renderLyricsVideoInternal (part_001), lines 293-316.  A word is
\* what lyric.text.split(' ') yields, held as [pos, chars]: its place in the
\* caption and its number of characters (0 between two adjacent spaces).  A
\* line is the sequence of words a string holds; every character and every
\* space between two words measures one unit, and the canvas width is given
\* in the same unit.

\* number of characters of the string `line`
RECURSIVE Chars(_)
Chars(line) ==
  IF line = <<>> THEN 0
  ELSE Head(line).chars + Chars(Tail(line)) + (IF Len(line) > 1 THEN 1 ELSE 0)

\* ctx.measureText(line).width
measureText(line) == Chars(line)

\* `currentLine` as a condition: the empty string is falsy
Truthy(line) == Chars(line) > 0

\* currentLine + (currentLine ? ' ' : '') + word
testLine(currentLine, word) ==
  IF Truthy(currentLine) THEN Append(currentLine, word) ELSE <<word>>

\* metrics.width > canvas.width * 0.8
TooWide(line, width) == 10 * measureText(line) > 8 * width

\* body of `for (const word of words)`
WrapStep_dropsWord(st, word, width) ==
  IF TooWide(testLine(st.currentLine, word), width) /\ Truthy(st.currentLine)
    THEN [lines |-> Append(st.lines, st.currentLine), currentLine |-> <<>>]
    ELSE [lines |-> st.lines, currentLine |-> testLine(st.currentLine, word)]

WrapStep(st, word, width) ==
  IF TooWide(testLine(st.currentLine, word), width) /\ Truthy(st.currentLine)
    THEN [lines |-> Append(st.lines, st.currentLine), currentLine |-> <<word>>]
    ELSE [lines |-> st.lines, currentLine |-> testLine(st.currentLine, word)]

\* the for loop over the words
RECURSIVE WrapLoop(_, _)
WrapLoop(words, width) ==
  IF words = <<>> THEN [lines |-> <<>>, currentLine |-> <<>>]
  ELSE WrapStep(WrapLoop(SubSeq(words, 1, Len(words) - 1), width),
                words[Len(words)], width)

\* the loop, then `if (currentLine) lines.push(currentLine)`
wrapLines(words, width) ==
  LET st == WrapLoop(words, width)
  IN  IF Truthy(st.currentLine) THEN Append(st.lines, st.currentLine) ELSE st.lines

\* lines.forEach((line, index) => ctx.fillText(line, ...))
fillTexts(lines) == {[index |-> k - 1, line |-> lines[k]] : k \in 1..Len(lines)}

\* captions: one to MaxWords words of 0, 1, 2 or 5 characters
WordLengths == {0, 1, 2, 5}
Captions ==
  UNION {{[i \in 1..n |-> [pos |-> i, chars |-> f[i]]] : f \in [1..n -> WordLengths]} :
         n \in 1..MaxWords}
CanvasWidths == {5, 10}

\* a frame of the lyrics compositor with a caption: the wrap and the fillTexts
WrapCaption(words, width) ==
  /\ rendered = NotRendered
  /\ rendered' = [NotRendered EXCEPT !.routine = "renderLyricsVideoInternal",
                                     !.arg = width,
                                     !.words = words,
                                     !.strokes = fillTexts(wrapLines(words, width))]
  /\ UNCHANGED dataArray
  /\ UNCHANGED <<engineVars, ghostVars, previewVars, srtVars, exportVars, fileVars>>

InitWrap ==
  /\ InitCommon
  /\ analyser = "none"
  /\ InitLib

NextWrap == \E words \in Captions, width \in CanvasWidths : WrapCaption(words, width)

SpecWrap == InitWrap /\ [][NextWrap]_vars

\* ----------------------------------------------------- the video exporter
\* VideoExporter of video-export.ts.  Every exportVideo call is a record of
\* `exports`: the state of the MediaRecorder it constructed and whether that
\* recorder's 'stop' event is queued, the `progress` local of its interval and
\* when the interval and the stop timer are due, its promise, and the reports
\* it passed to its onProgress.  Every callback is one task of the event loop.

ProgressInterval == 500   \* setInterval(..., 500)
StopAfter == 5000         \* setTimeout(..., 5000)
ProgressStep == 10        \* progress += 10
RenderingCap == 80        \* if (progress < 80)

Report(progress, stage) == [progress |-> progress, stage |-> stage]

\* this.mediaRecorder && this.mediaRecorder.state === 'recording'
Recording(ex, recorder) == recorder # Null /\ ex[recorder].state = "recording"

\* MediaRecorder.stop() on the recorder of call r: the recorder turns inactive
\* and its 'stop' event is queued
recorderStop(ex, r) == [ex EXCEPT ![r].state = "inactive", ![r].stopEvent = TRUE]

\* VideoExporter.stop()
exporterStop(ex, recorder) ==
  IF Recording(ex, recorder) THEN recorderStop(ex, recorder) ELSE ex

\* the executor of exportVideo's promise; `supported` is whether the host
\* constructs a MediaRecorder for the mime type or throws
ExportVideo(supported) ==
  /\ Len(exports) < MaxExports
  /\ IF supported
       THEN /\ exports' = Append(exports,
                 [state |-> "recording", stopEvent |-> FALSE,
                  progress |-> 10, interval |-> TRUE,
                  nextTick |-> now + ProgressInterval,
                  timer |-> TRUE, timerDue |-> now + StopAfter,
                  promise |-> "pending",
                  reports |-> <<Report(0, "preparing"), Report(10, "rendering")>>])
            /\ mediaRecorder' = Len(exports) + 1
       ELSE /\ exports' = Append(exports,
                 [state |-> "none", stopEvent |-> FALSE,
                  progress |-> 0, interval |-> FALSE, nextTick |-> 0,
                  timer |-> FALSE, timerDue |-> 0,
                  promise |-> "rejected",
                  reports |-> <<Report(0, "preparing")>>])
            /\ UNCHANGED mediaRecorder
  /\ UNCHANGED now
  /\ UNCHANGED <<engineVars, ghostVars, previewVars, srtVars, renderVars, fileVars>>

\* the setInterval callback of call k
ProgressTick(k) ==
  /\ k \in 1..Len(exports)
  /\ exports[k].interval
  /\ exports[k].nextTick <= now
  /\ LET progress == exports[k].progress + ProgressStep
     IN  exports' =
           IF progress < RenderingCap
             THEN [exports EXCEPT ![k].progress = progress,
                                  ![k].nextTick = @ + ProgressInterval,
                                  ![k].reports = Append(@, Report(progress, "rendering"))]
             ELSE [exports EXCEPT ![k].progress = progress, ![k].interval = FALSE]
  /\ UNCHANGED <<mediaRecorder, now>>
  /\ UNCHANGED <<engineVars, ghostVars, previewVars, srtVars, renderVars, fileVars>>

\* the setTimeout callback of call k: it looks at the exporter's recorder
StopTimer(k) ==
  /\ k \in 1..Len(exports)
  /\ exports[k].timer
  /\ exports[k].timerDue <= now
  /\ LET fired == [exports EXCEPT ![k].timer = FALSE]
     IN  exports' =
           IF Recording(exports, mediaRecorder)
             THEN recorderStop([fired EXCEPT ![k].reports = Append(@, Report(80, "encoding"))],
                               mediaRecorder)
             ELSE fired
  /\ UNCHANGED <<mediaRecorder, now>>
  /\ UNCHANGED <<engineVars, ghostVars, previewVars, srtVars, renderVars, fileVars>>

\* mediaRecorder.onstop of call k; resolving a settled promise changes nothing
OnStop(k) ==
  /\ k \in 1..Len(exports)
  /\ exports[k].stopEvent
  /\ exports' = [exports EXCEPT
                   ![k].stopEvent = FALSE,
                   ![k].reports = @ \o <<Report(90, "finalizing"), Report(100, "complete")>>,
                   ![k].promise = IF @ = "pending" THEN "resolved" ELSE @]
  /\ UNCHANGED <<mediaRecorder, now>>
  /\ UNCHANGED <<engineVars, ghostVars, previewVars, srtVars, renderVars, fileVars>>

\* a caller's stop()
ExporterStop ==
  /\ exports' = exporterStop(exports, mediaRecorder)
  /\ UNCHANGED <<mediaRecorder, now>>
  /\ UNCHANGED <<engineVars, ghostVars, previewVars, srtVars, renderVars, fileVars>>

\* 500 ms pass.  The host runs a callback when it is due and an event when it
\* is queued, so time passes only when nothing waits to run; the clock is
\* followed while a timer is set.
Due(k) ==
  \/ exports[k].interval /\ exports[k].nextTick <= now
  \/ exports[k].timer /\ exports[k].timerDue <= now
  \/ exports[k].stopEvent

Advance ==
  /\ \E k \in 1..Len(exports) : exports[k].interval \/ exports[k].timer
  /\ \A k \in 1..Len(exports) : ~Due(k)
  /\ now' = now + ProgressInterval
  /\ UNCHANGED <<exports, mediaRecorder>>
  /\ UNCHANGED <<engineVars, ghostVars, previewVars, srtVars, renderVars, fileVars>>

InitExport ==
  /\ InitCommon
  /\ analyser = "none"
  /\ InitLib

NextExport ==
  \/ \E supported \in BOOLEAN : ExportVideo(supported)
  \/ \E k \in 1..MaxExports : ProgressTick(k)
  \/ \E k \in 1..MaxExports : StopTimer(k)
  \/ \E k \in 1..MaxExports : OnStop(k)
  \/ ExporterStop
  \/ Advance

SpecExport == InitExport /\ [][NextExport]_vars

\* the host runs every due callback and every queued event, and time passes
SpecExportFair ==
  /\ SpecExport
  /\ WF_vars(\E k \in 1..MaxExports : ProgressTick(k))
  /\ WF_vars(\E k \in 1..MaxExports : StopTimer(k))
  /\ WF_vars(\E k \in 1..MaxExports : OnStop(k))
  /\ WF_vars(Advance)

\* ------------------------------------------------------------ the claims
EnginePending == {c \in Pending : c.owner = "engine"}
LastCall == IF calls = <<>> THEN "none" ELSE calls[Len(calls)]

\* a start and the next caller operation after it, a stop, with no display
\* refresh between the two
StartStopPairs ==
  {p \in (1..Len(calls)) \X (1..Len(calls)) :
     /\ p[1] < p[2]
     /\ calls[p[1]] = "start"
     /\ calls[p[2]] = "stop"
     /\ \A k \in (p[1] + 1)..(p[2] - 1) : calls[k] = "draw"}
DrawsBetween(p) == p[2] - p[1] - 1

C2_StopHaltsDrawing ==
  /\ LastCall = "stop" => animationId = Null
  /\ animationId = Null => (EnginePending = {} /\ executing = {})
  /\ stepDraw.owner = "engine" => animationId # Null

\* a display refresh after start, frames and stop: nothing fired
C2_Witness ==
  /\ started.type # "none"
  /\ animationId = Null
  /\ calls = <<>>
  /\ Idle

C4_LatestStartDraws ==
  /\ LastCall = "start" =>
       /\ animationId # Null
       /\ \E c \in Range(rafQueue) : c.owner = "engine" /\ c.id = animationId
  /\ \A c \in EnginePending \cup executing :
       c.type = started.type /\ c.config = started.config
  /\ stepDraw.owner = "engine" =>
       /\ stepDraw.type = started.type
       /\ stepDraw.config = started.config

\* a start from Running (a fired frame drew first) whose own frame is drawn,
\* with another algorithm and config than the loop it replaced
C4_Witness ==
  /\ calls = <<"draw", "start", "draw">>
  /\ stepDraw.via = "start"
  /\ stepDraw.config = 2
  /\ \E d \in frameDraws : d.via = "frame" /\ d.routine # stepDraw.routine

\* the routine the design names for each known id
C5_Routine(type) ==
  CASE type = "milkdrop"    -> "renderMilkdrop"
    [] type = "fractals"    -> "renderFractals"
    [] type = "fire"        -> "renderFire"
    [] type = "electricity" -> "renderElectricity"
    [] type = "particles"   -> "renderParticles"
    [] type = "waveform"    -> "renderWaveform"

\* C5: every engine draw is made by the routine of the requested id when the
\* id is one of the six named ones, and by the spectrum routine for
\* 'spectrum' and for an unknown id.
C5_DispatchTable ==
  stepDraw.owner = "engine" =>
    IF stepDraw.type \in KnownTypes
      THEN stepDraw.routine = C5_Routine(stepDraw.type)
      ELSE stepDraw.routine = "renderSpectrum"

\* a fired frame of an unknown id drawn by the spectrum routine
C5_Witness ==
  /\ stepDraw.type = "plasma"
  /\ stepDraw.via = "frame"
  /\ stepDraw.routine = "renderSpectrum"

\* C6: when the audio context behind the analyser is closed at a frame, the
\* fired callback arms no further callback and draws nothing.
C6_ClosedSourceHaltsLoop ==
  analyser = "closed" =>
    /\ (\E cb \in executing : cb.via = "frame") => EnginePending = {}
    /\ stepDraw.owner = "engine" => stepDraw.via # "frame"

C8_SingleRenderLoop == Cardinality(Pending) <= 1

\* the mode a compositor belongs to
ModeOf(owner) == IF owner = "ai" THEN "ai-visual" ELSE "lyrics"

\* C9: a compositor callback draws (and re-arms) only while the preview is
\* playing in that compositor's mode.
C9_CompositorStopsWithPlayback ==
  stepDraw.owner \in {"ai", "lyrics"} =>
    isPlaying /\ videoMode = ModeOf(stepDraw.owner)

\* C10: in lyrics mode the caption a frame draws is the text of the entry
\* active at the current playback time, and none when no entry is active.
C10_CaptionIsActiveEntry ==
  (stepDraw.owner = "lyrics" /\ videoMode = "lyrics") =>
    stepDraw.caption = getCurrentLyric(srtEntries, currentTime).text

Sorted(es) == \A i \in 1..(Len(es) - 1) : es[i].startTime <= es[i + 1].startTime
Count(es, e) == Cardinality({i \in 1..Len(es) : es[i] = e})

\* C12: the timeline parseSRT returns is sorted ascending by startTime and
\* holds the entries the accepted blocks pushed, each as often as it was
\* pushed, whatever the order of the blocks.
C12_ParseSorted ==
  parsed.done =>
    /\ Sorted(parsed.entries)
    /\ Len(parsed.entries) = Len(parseBlocks(content))
    /\ \A e \in Range(parseBlocks(content)) :
         Count(parsed.entries, e) = Count(parseBlocks(content), e)

\* two accepted blocks given later-first come back earlier-first
C12_Witness ==
  /\ parsed.done
  /\ Len(content) = 2
  /\ Len(parsed.entries) = 2
  /\ StampMs(content[1][2].from) > StampMs(content[2][2].from)
  /\ parsed.entries[1].startTime < parsed.entries[2].startTime

\* a block in the form the subtitle format prescribes
WellFormed(lines) ==
  /\ Len(lines) >= 3
  /\ lines[1] # <<>>
  /\ \A i \in 1..Len(lines[1]) : lines[1][i] \in Digits
  /\ lines[2].lead = ""
  /\ lines[2].sep = ","

\* a block parseSRT takes: three lines or more, the first beginning with a
\* digit, the second holding a time range somewhere
Accepted(lines) ==
  /\ Len(lines) >= 3
  /\ lines[1] # <<>>
  /\ lines[1][1] \in Digits
  /\ lines[2].sep = ","

C14_StartBeforeEnd ==
  parsed.done => \A e \in Range(parsed.entries) : e.startTime <= e.endTime

Contains(e, t) == e.startTime <= t /\ t <= e.endTime

\* C15: getCurrentLyric on a sorted timeline returns the first entry in
\* sort order with startTime <= t <= endTime, both bounds inclusive, and
\* none when no entry contains t.
C15_CurrentIsFirstContaining ==
  lookup.fn = "getCurrentLyric" =>
    LET es == parsed.entries
        hits == {i \in 1..Len(es) : Contains(es[i], lookup.t)}
    IN  /\ Sorted(es)
        /\ IF hits = {} THEN lookup.result = NoLyric
           ELSE \E i \in hits : (\A j \in hits : i <= j) /\ lookup.result = es[i]

\* two different entries overlap at t, which is the end of the first: the
\* first is returned
C15_Witness ==
  /\ lookup.fn = "getCurrentLyric"
  /\ Len(parsed.entries) = 2
  /\ parsed.entries[1] # parsed.entries[2]
  /\ Contains(parsed.entries[1], lookup.t) /\ Contains(parsed.entries[2], lookup.t)
  /\ lookup.t = parsed.entries[1].endTime
  /\ lookup.result = parsed.entries[1]

\* C16: getUpcomingLyric on a sorted timeline returns the first entry with
\* startTime > t, which has the smallest such startTime, and none when every
\* entry starts at or before t.
C16_UpcomingIsNextStart ==
  lookup.fn = "getUpcomingLyric" =>
    LET es == parsed.entries
        later == {i \in 1..Len(es) : es[i].startTime > lookup.t}
    IN  /\ Sorted(es)
        /\ IF later = {} THEN lookup.result = NoLyric
           ELSE \E i \in later :
                  /\ \A j \in later : i <= j /\ es[i].startTime <= es[j].startTime
                  /\ lookup.result = es[i]

\* the first entry has started, the second has not: the second is returned
C16_Witness ==
  /\ lookup.fn = "getUpcomingLyric"
  /\ Len(parsed.entries) = 2
  /\ parsed.entries[1].startTime = lookup.t
  /\ parsed.entries[2].startTime > lookup.t
  /\ lookup.result = parsed.entries[2]

\* binary search over the start times of a sorted timeline: the number of
\* entries with startTime <= t
RECURSIVE UpperBound(_, _, _, _)
UpperBound(es, t, lo, hi) ==
  IF lo >= hi THEN lo
  ELSE LET mid == (lo + hi) \div 2
       IN  IF es[mid + 1].startTime <= t THEN UpperBound(es, t, mid + 1, hi)
           ELSE UpperBound(es, t, lo, mid)

\* the entry the search lands on, if it contains t
binaryCurrent(es, t) ==
  LET k == UpperBound(es, t, 0, Len(es))
  IN  IF k > 0 /\ t <= es[k].endTime THEN es[k] ELSE NoLyric

\* the entry after the ones the search counted
binaryUpcoming(es, t) ==
  LET k == UpperBound(es, t, 0, Len(es))
  IN  IF k < Len(es) THEN es[k + 1] ELSE NoLyric

\* C17 as stated: on every sorted timeline both forward scans return what a
\* binary search over the start times returns.
C17_ScansEqualBinarySearch ==
  /\ lookup.fn = "getCurrentLyric" =>
       lookup.result = binaryCurrent(parsed.entries, lookup.t)
  /\ lookup.fn = "getUpcomingLyric" =>
       lookup.result = binaryUpcoming(parsed.entries, lookup.t)

NonOverlapping(es) == \A i \in 1..(Len(es) - 1) : es[i].endTime < es[i + 1].startTime

\* C17 amended: on every sorted timeline getUpcomingLyric returns what a
\* binary search over the start times returns; getCurrentLyric does so on the
\* sorted timelines whose entries do not overlap (each ends before the next
\* starts).
C17_ScansEqualBinarySearchDisjoint ==
  /\ (lookup.fn = "getCurrentLyric" /\ NonOverlapping(parsed.entries)) =>
       lookup.result = binaryCurrent(parsed.entries, lookup.t)
  /\ lookup.fn = "getUpcomingLyric" =>
       lookup.result = binaryUpcoming(parsed.entries, lookup.t)

\* the scan passes the first entry and returns the second one, at its end
C17_Witness ==
  /\ lookup.fn = "getCurrentLyric"
  /\ Len(parsed.entries) = 2
  /\ NonOverlapping(parsed.entries)
  /\ lookup.t = parsed.entries[2].endTime
  /\ lookup.result = parsed.entries[2]

\* C18: a frame of the fractals routine makes exactly 15 strokes for each of
\* the 8 base angles, 120 in all, whatever the amplitudes of the snapshot,
\* and no stroke is more than 4 calls deep.
C18_FractalStrokes ==
  rendered.routine = "renderFractals" =>
    /\ Cardinality(rendered.strokes) = 120
    /\ \A i \in 0..7 : Cardinality({k \in rendered.strokes : k.base = i}) = 15
    /\ \A k \in rendered.strokes :
         /\ k.base \in 0..7
         /\ Len(k.path) + 1 <= 4
         /\ k.depth \in 1..4

\* a frame on a silent snapshot
C18_Witness ==
  /\ rendered.routine = "renderFractals"
  /\ SumOf(dataArray) = 0
  /\ \E k \in rendered.strokes : Len(k.path) = 3 /\ k.depth = 1

\* C19 as stated: for the snapshot [0,50,120,40,200,190,210,30] the peaks
\* are exactly the indices {2, 4}.
C19_ExamplePeaks ==
  (rendered.routine = "renderElectricity" /\ dataArray = ExampleSnapshot) =>
    {p.index : p \in rendered.peaks} = {2, 4}

\* C19 amended: for that snapshot the peaks are exactly the indices
\* {2, 4, 6}: 210 at index 6 is above 100 and above both neighbours, 190 and 30.
C19_ExamplePeaksWithLast ==
  (rendered.routine = "renderElectricity" /\ dataArray = ExampleSnapshot) =>
    {p.index : p \in rendered.peaks} = {2, 4, 6}

C19_Witness ==
  /\ rendered.routine = "renderElectricity"
  /\ dataArray = <<0, 50, 120, 40, 200, 190, 210, 30>>
  /\ \E p \in rendered.peaks : p.index = 6 /\ p.amplitude = 210

\* the call that made the call of a stroke
Parent(k) == SubSeq(k.path, 1, Len(k.path) - 1)

\* C20 as stated: the lightning of every peak starts with a segment count of
\* 5, and every recursive call gets half the segment count of its caller.
C20_FiveSegmentsHalved ==
  rendered.routine = "renderElectricity" =>
    \A k \in rendered.strokes :
      /\ k.path = <<>> => k.segments = 5 * 255
      /\ k.path # <<>> =>
           \E up \in rendered.strokes :
             /\ up.peak = k.peak /\ up.path = Parent(k)
             /\ k.segments = up.segments \div 2

\* C20 amended: the lightning of a peak starts with a segment count of 5
\* times the peak's amplitude (its byte / 255), a call strokes when its count
\* is above 0 and makes its two recursive calls when its count is above 1,
\* and each recursive call gets the count of its caller less 1.
C20_SegmentsFromAmplitude ==
  rendered.routine = "renderElectricity" =>
    /\ \A p \in rendered.peaks :
         \E k \in rendered.strokes : k.peak = p.index /\ k.path = <<>>
    /\ \A k \in rendered.strokes :
         /\ k.segments > 0
         /\ k.path = <<>> => k.segments = 5 * At(dataArray, k.peak)
         /\ k.path # <<>> =>
              \E up \in rendered.strokes :
                /\ up.peak = k.peak /\ up.path = Parent(k)
                /\ up.segments > 255
                /\ k.segments = up.segments - 255
         /\ k.segments > 255 =>
              \A n \in {1, 2} :
                \E down \in rendered.strokes :
                  down.peak = k.peak /\ down.path = Append(k.path, n)

\* a peak of amplitude 101 / 255: the count starts at 505 / 255, the
\* recursive calls get 250 / 255 and make no further call
C20_Witness ==
  /\ rendered.routine = "renderElectricity"
  /\ \E k \in rendered.strokes :
       /\ k.path = <<>> /\ k.segments = 505
       /\ Cardinality({d \in rendered.strokes : d.peak = k.peak}) = 3

\* C21: a frame of the particles routine spawns no particle for a bin whose
\* amplitude (byte / 255) is below 0.1, and floor(amplitude * 10) particles,
\* at least one, for every other bin.
C21_ParticlesPerBin ==
  rendered.routine = "renderParticles" =>
    \A i \in 0..(Len(dataArray) - 1) :
      LET byte == dataArray[i + 1]
          spawned == Cardinality({k \in rendered.strokes : k.bin = i})
      IN  IF byte * 10 < 255 THEN spawned = 0
          ELSE /\ spawned >= 1
               /\ spawned * 255 <= byte * 10
               /\ byte * 10 < (spawned + 1) * 255

\* the lowest byte that passes the threshold, 26, spawns one particle, and
\* the silent bins next to it none
C21_Witness ==
  /\ rendered.routine = "renderParticles"
  /\ dataArray = <<0, 26, 0>>
  /\ Cardinality(rendered.strokes) = 1

\* C22: a frame of the spectrum routine and a frame of the milkdrop routine
\* draw, after the fade, exactly one shape for each of the N bins and read
\* the snapshot only at the indices 0..N-1.
C22_OneShapePerBin ==
  rendered.routine \in {"renderSpectrum", "renderMilkdrop"} =>
    LET N == Len(dataArray)
        shapes == {k \in rendered.strokes : k.shape # "fade"}
    IN  /\ Cardinality(shapes) = N
        /\ \A i \in 0..(N - 1) : Cardinality({k \in shapes : k.bin = i}) = 1
        /\ \A k \in shapes : k.read \in 0..(N - 1)

\* frames on a snapshot of one bin
C22_Witness ==
  /\ rendered.routine = "renderMilkdrop"
  /\ Len(dataArray) = 1
  /\ Cardinality(rendered.strokes) = 2

\* C23: with count images the AI-image compositor's image index is
\* floor(mean amplitude * count) mod count, the mean amplitude being the mean
\* byte / 255, and lies in 0..count-1, also at mean amplitude 1.
C23_ImageIndexInRange ==
  rendered.routine = "renderAIVisualsInternal" =>
    LET count == rendered.arg
        total == SumOf(dataArray)
        full == Len(dataArray) * 255
    IN  \A k \in rendered.strokes :
          /\ k.imageIndex \in 0..(count - 1)
          /\ IF total = full THEN k.imageIndex = 0
             ELSE /\ k.imageIndex * full <= total * count
                  /\ total * count < (k.imageIndex + 1) * full

\* every bin at 255, three images: the index wraps to 0
C23_Witness ==
  /\ rendered.routine = "renderAIVisualsInternal"
  /\ rendered.arg = 3
  /\ \A i \in 1..Len(dataArray) : dataArray[i] = 255
  /\ rendered.strokes = {[imageIndex |-> 0]}

\* C24: bin i of a snapshot of N bins is an electricity peak exactly when
\* 1 <= i <= N-2, its value is above 100 and its value is strictly greater
\* than both neighbours; the first and the last bin are never peaks and a
\* bin equal to a neighbour is not a peak.
C24_PeakRule ==
  rendered.routine = "renderElectricity" =>
    LET N == Len(dataArray)
        value(i) == dataArray[i + 1]
    IN  /\ {p.index : p \in rendered.peaks} =
             {i \in 0..(N - 1) :
                /\ 1 <= i /\ i <= N - 2
                /\ value(i) > 100
                /\ value(i) > value(i - 1)
                /\ value(i) > value(i + 1)}
        /\ \A p \in rendered.peaks : p.amplitude = value(p.index)

\* a first bin of 255 and two equal bins of 255 next to each other: no peak
C24_Witness ==
  /\ rendered.routine = "renderElectricity"
  /\ dataArray = <<255, 0, 255, 255>>
  /\ rendered.peaks = {}

\* C25: drawLightning returns without a stroke when its segment count is at
\* most 0, and for every count renderElectricity passes (5 * byte / 255 for a
\* peak byte of 101..255) it makes at most 31 strokes, at most 5 calls deep.
C25_LightningBounded ==
  /\ (rendered.routine = "drawLightning" /\ rendered.arg <= 0) => rendered.strokes = {}
  /\ (rendered.routine = "drawLightning" /\ rendered.arg > 0) =>
       \E k \in rendered.strokes : k.path = <<>> /\ k.segments = rendered.arg
  /\ rendered.routine = "renderElectricity" =>
       /\ \A p \in rendered.peaks :
            /\ p.amplitude \in 101..255
            /\ Cardinality({k \in rendered.strokes : k.peak = p.index}) <= 31
       /\ \A k \in rendered.strokes : Len(k.path) + 1 <= 5

\* the loudest peak: 31 strokes
C25_Witness ==
  /\ rendered.routine = "renderElectricity"
  /\ dataArray = <<0, 255, 0>>
  /\ Cardinality(rendered.strokes) = 31

\* where a word of the caption stands in the lines drawn
PlacesOf(pos) ==
  {pl \in UNION {{<<k.index, j>> : j \in 1..Len(k.line)} : k \in rendered.strokes} :
     \E k \in rendered.strokes : k.index = pl[1] /\ k.line[pl[2]].pos = pos}
Before(a, b) == a[1] < b[1] \/ (a[1] = b[1] /\ a[2] < b[2])

\* C26: the lines the lyrics compositor draws hold every word of the caption
\* exactly once and in the caption's order, nothing else, and every line of
\* more than one word measures at most 80% of the canvas width.
C26_WrapKeepsWords ==
  rendered.routine = "renderLyricsVideoInternal" =>
    LET words == rendered.words
        real == {i \in 1..Len(words) : words[i].chars > 0}
    IN  /\ \A i \in real : Cardinality(PlacesOf(i)) = 1
        /\ \A i, j \in real :
             i < j => \A a \in PlacesOf(i), b \in PlacesOf(j) : Before(a, b)
        /\ \A k \in rendered.strokes :
             /\ \A j \in 1..Len(k.line) :
                  k.line[j].pos \in 1..Len(words) /\ k.line[j] = words[k.line[j].pos]
             /\ Len(k.line) > 1 => 10 * Chars(k.line) <= 8 * rendered.arg
        /\ {k.index : k \in rendered.strokes} = 0..(Cardinality(rendered.strokes) - 1)

\* three words on two lines, one of the lines holding two words
C26_Witness ==
  /\ rendered.routine = "renderLyricsVideoInternal"
  /\ Len(rendered.words) = 3
  /\ \A i \in 1..3 : rendered.words[i].chars > 0
  /\ Cardinality(rendered.strokes) = 2
  /\ \E k \in rendered.strokes : Len(k.line) = 2

\* C27: whenever the preview's engine is Running, the analyser it polls
\* belongs to the audio session that is open now, never to a closed one.
C27_RunningPollsOpenSession ==
  animationId # Null => (session = "open" /\ analyser = "open")

\* C28: within one exportVideo call the progress values reported never
\* decrease and no report follows the 'complete' report.
C28_ProgressMonotone ==
  \A k \in 1..Len(exports) :
    LET r == exports[k].reports
    IN  \A i \in 1..(Len(r) - 1) :
          /\ r[i].progress <= r[i + 1].progress
          /\ r[i].stage # "complete"

\* C29: every exportVideo call eventually settles its promise, also when
\* another exportVideo call starts on the exporter before it has finished.
C29_EveryExportSettles ==
  \A k \in 1..MaxExports :
    (Len(exports) >= k) ~> (Len(exports) >= k /\ exports[k].promise # "pending")

\* C30: once the user has removed the SRT file (VideoOptions shows none), the
\* preview holds no caption: its timeline is empty and its current caption is
\* null.  Every step of the preview is a whole commit, effects included.
C30_RemovedFileClearsCaptions ==
  ~optionsSrtFile.present => (srtEntries = <<>> /\ currentLyric = NoLyric)
====
